---- MODULE Spec2Model ----
(***************************************************************************)
(* Hackflight simulator receiver (sim.hpp, class hf::Controller): raw      *)
(* joystick axes are normalized into five demands, one frame per           *)
(* readChannel(0) call.                                                    *)
(*                                                                         *)
(* Number representation.  Every float of the program is held as an exact  *)
(* rational with denominator One = 32767 * 100: the integer v stands for   *)
(* v / One.  (raw - baseline) / 32767.f is (raw - baseline) * StepDiv, and *)
(* demand * .01f is demand \div StepDiv, which is exact on these values.   *)
(* Rounding of IEEE single precision is not modelled.                      *)
(***************************************************************************)
EXTENDS Integers, FiniteSets

\* ------------------------------------------------------------ constants

\* the divisor 32767.f that normalizes an axis
AxisScale == 32767

\* the integration gain .01f, as its reciprocal
StepDiv == 100

\* the representation of 1.0
One == AxisScale * StepDiv

\* the deadband half-width 0.15 passed to Filter::deadband
Band == (15 * One) \div 100

\* number of logical channels (Thr, Ael, Ele, Rud, Aux) and of backend axes
NumChannels == 5
NumAxes == 6

Channels == 0 .. (NumChannels - 1)
AxisIds == 0 .. (NumAxes - 1)

\* ------------------------------------------------------------ bounds

\* axis maps tried: rotations of the identity by 0 .. MaxRot
MaxRot == 1

\* largest stick deflection tried, in multiples of full scale (from 2 on it is
\* outside the signed 16-bit range)
MaxDeflect == 2

\* baselines tried: 0 .. MaxBase times 16383
MaxBase == 1

\* ------------------------------------------------------------ inputs

AxisMaps == {[k \in Channels |-> (k + r) % NumAxes] : r \in 0 .. MaxRot}

Baselines == {b * 16383 : b \in 0 .. MaxBase}

Abs(x) == IF x < 0 THEN -x ELSE x

\* every stick at rest
Centered(b) == [i \in AxisIds |-> b]

\* all sticks slightly and differently deflected, inside the deadband
Ramp(b) == [i \in AxisIds |-> b + 100 * (i + 1)]

\* every stick at m times full scale
Full(b, m) == [i \in AxisIds |-> b + m * AxisScale]

\* axes in turn at s times: +full, just inside the deadband
\* (4915 / 32767 < 0.15), -full
Split(b, s) ==
    [i \in AxisIds |->
        b + s * (CASE i % 3 = 0 -> AxisScale
                   [] i % 3 = 1 -> 4915
                   [] OTHER     -> -AxisScale)]

RawVectors(b) ==
    {Centered(b), Ramp(b), Split(b, 1), Split(b, -1), Full(b, MaxDeflect)}

\* ------------------------------------------------------------ state

VARIABLES
    pc,                 \* "constructed" until begin(), then "running"
    reversedVerticals,  \* _reversedVerticals
    springyThrottle,    \* _springyThrottle
    useButtonForAux,    \* _useButtonForAux
    throttleDemand,     \* _throttleDemand
    axismap,            \* _axismap[5]
    baseline,           \* what productGetBaseline() returns
    device,             \* the axes productPoll() would deliver now
    axes,               \* static int32_t axes[6] of poll()
    demands,            \* static float demands[5] of readChannel()
    chan,               \* argument of the last readChannel call, -1 if none
    ret,                \* value the last readChannel call returned
    polled,             \* poll() has run at least once
    acquired            \* the last readChannel call ran productPoll()

vars == <<pc, reversedVerticals, springyThrottle, useButtonForAux,
          throttleDemand, axismap, baseline, device, axes, demands,
          chan, ret, polled, acquired>>

\* ------------------------------------------------------------ Filter

\* Filter::deadband: zero inside the band, identity outside
deadband(value, band) == IF Abs(value) <= band THEN 0 ELSE value

\* Filter::constrainAbs: clamp to [-max, +max]
constrainAbs(value, max) ==
    IF value < -max THEN -max ELSE IF value > max THEN max ELSE value

\* ------------------------------------------------------------ poll

\* variant: the baseline is not subtracted
normalizeNoBaseline(ax, map, base) ==
    [k \in Channels |-> ax[map[k]] * StepDiv]

\* variant: channel k reads backend axis k, ignoring the axis map
normalizeUnmapped(ax, map, base) ==
    [k \in Channels |-> (ax[k] - base) * StepDiv]

\* demands[k] = (axes[_axismap[k]] - productGetBaseline()) / 32767.f
normalize(ax, map, base) ==
    [k \in Channels |-> (ax[map[k]] - base) * StepDiv]

\* variant: roll is inverted in place of pitch
invertRoll(d, rev) ==
    IF rev THEN [d EXCEPT ![0] = -d[0], ![1] = -d[1]] ELSE d

\* invert throttle, pitch if indicated
invert(d, rev) ==
    IF rev THEN [d EXCEPT ![0] = -d[0], ![2] = -d[2]] ELSE d

\* variant: the wrong channel is forced to -1
suppressRudder(d, aux) ==
    IF aux THEN [d EXCEPT ![3] = -One] ELSE d

\* for game controllers, use buttons for aux
suppressAux(d, aux) ==
    IF aux THEN [d EXCEPT ![4] = -One] ELSE d

\* the demands before throttle handling, from a raw-axis vector
conditioned(ax, map, base, rev, aux) ==
    suppressAux(invert(normalize(ax, map, base), rev), aux)

\* demands[0] as the throttle branch leaves it
throttleInput(d0, spr) == IF spr THEN deadband(d0, Band) ELSE d0

\* variant: the direct branch accumulates too
throttleNextAccumulate(d0, spr, old) ==
    IF spr
    THEN constrainAbs(old + (deadband(d0, Band) \div StepDiv), One)
    ELSE old + d0

\* variant: the deadband is not applied before integrating
throttleNextNoDeadband(d0, spr, old) ==
    IF spr
    THEN constrainAbs(old + (d0 \div StepDiv), One)
    ELSE d0

\* variant: the accumulator is not clamped
throttleNextNoClamp(d0, spr, old) ==
    IF spr
    THEN old + (deadband(d0, Band) \div StepDiv)
    ELSE d0

\* variant: the accumulator is clamped from above only
throttleNextClampHigh(d0, spr, old) ==
    IF spr
    THEN LET t == old + (deadband(d0, Band) \div StepDiv)
         IN  IF t > One THEN One ELSE t
    ELSE d0

\* variant: the demand is integrated twice per frame
throttleNextTwice(d0, spr, old) ==
    IF spr
    THEN constrainAbs(old + 2 * (deadband(d0, Band) \div StepDiv), One)
    ELSE d0

\* _throttleDemand after the throttle branch, from the conditioned demands[0]
throttleNext(d0, spr, old) ==
    IF spr
    THEN constrainAbs(old + (deadband(d0, Band) \div StepDiv), One)
    ELSE d0

\* the whole frame poll() leaves behind: the demands array and _throttleDemand
frame(ax, map, base, rev, spr, aux, old) ==
    LET d == conditioned(ax, map, base, rev, aux)
    IN  [demands  |-> [d EXCEPT ![0] = throttleInput(d[0], spr)],
         throttle |-> throttleNext(d[0], spr, old)]

\* the frame of the current configuration from a raw-axis vector
pollFrame(ax) ==
    frame(ax, axismap, baseline, reversedVerticals, springyThrottle,
          useButtonForAux, throttleDemand)

\* ------------------------------------------------------------ actions

\* Controller(): flags false; _throttleDemand and _axismap are not set,
\* the function-local statics are zero
constructed ==
    /\ pc = "constructed"
    /\ reversedVerticals = FALSE
    /\ springyThrottle = FALSE
    /\ useButtonForAux = FALSE
    /\ throttleDemand \in {-One, 0, One}
    /\ axismap \in AxisMaps
    /\ baseline \in Baselines
    /\ axes = [i \in AxisIds |-> 0]
    /\ demands = [k \in Channels |-> 0]
    /\ chan = -1
    /\ ret = 0
    /\ polled = FALSE
    /\ acquired = FALSE

\* the sticks are anywhere when the program starts
Init ==
    /\ constructed
    /\ device \in RawVectors(baseline)

\* productInit(): the platform code picks the axis map and the flags
productInit(map, rev, spr, aux) ==
    /\ axismap' = map
    /\ reversedVerticals' = rev
    /\ springyThrottle' = spr
    /\ useButtonForAux' = aux

\* begin()
begin(map, rev, spr, aux) ==
    /\ pc = "constructed"
    /\ productInit(map, rev, spr, aux)
    /\ throttleDemand' = -One
    /\ pc' = "running"
    /\ UNCHANGED <<baseline, device, axes, demands, chan, ret, polled,
                   acquired>>

\* the operator moves the sticks
moveSticks(v) ==
    /\ v /= device
    /\ device' = v
    /\ UNCHANGED <<pc, reversedVerticals, springyThrottle, useButtonForAux,
                   throttleDemand, axismap, baseline, axes, demands, chan,
                   ret, polled, acquired>>

\* poll(demands)
poll ==
    /\ axes' = device
    /\ demands' = pollFrame(device).demands
    /\ throttleDemand' = pollFrame(device).throttle

\* variant: every channel request polls
pollsOnEvery(c) == c \in Channels

\* whether readChannel(c) polls
pollsOn(c) == c = 0

\* readChannel(chan)
readChannel(c) ==
    /\ pc = "running"
    /\ IF pollsOn(c)
       THEN poll /\ polled' = TRUE
       ELSE UNCHANGED <<axes, demands, throttleDemand, polled>>
    /\ acquired' = pollsOn(c)
    /\ ret' = IF c = 0 THEN throttleDemand' ELSE demands'[c]
    /\ chan' = c
    /\ UNCHANGED <<pc, reversedVerticals, springyThrottle, useButtonForAux,
                   axismap, baseline, device>>

Next ==
    \/ \E map \in AxisMaps, rev \in BOOLEAN, spr \in BOOLEAN, aux \in BOOLEAN :
           begin(map, rev, spr, aux)
    \/ \E v \in RawVectors(baseline) : moveSticks(v)
    \/ \E c \in Channels : readChannel(c)

Spec == Init /\ [][Next]_vars

\* ------------------------------------------------------------ saturation run

\* begin() on a spring-throttle controller whose throttle stick is held at
\* full scale, so that every frame's throttle demand is 1.0
beginHeld(map, rev, aux) ==
    /\ begin(map, rev, TRUE, aux)
    /\ conditioned(device, map, baseline, rev, aux)[0] = One

InitHeld ==
    /\ constructed
    /\ device \in {Full(baseline, 1), Full(baseline, -1)}

NextHeld ==
    \/ \E map \in AxisMaps, rev \in BOOLEAN, aux \in BOOLEAN :
           beginHeld(map, rev, aux)
    \/ \E c \in Channels : readChannel(c)

\* the control loop keeps asking for channel 0
SpecHeld ==
    /\ InitHeld
    /\ [][NextHeld]_vars
    /\ WF_vars(\E map \in AxisMaps, rev \in BOOLEAN, aux \in BOOLEAN :
                   beginHeld(map, rev, aux))
    /\ WF_vars(readChannel(0))

\* ------------------------------------------------------------ properties

running == pc = "running"

\* the throttle demand of the frame last polled, before throttle handling,
\* written out from the sampled axes
sampledThrottle ==
    (IF reversedVerticals THEN -1 ELSE 1)
        * (axes[axismap[0]] - baseline) * StepDiv

\* the same for the axes the backend would deliver now
offeredThrottle ==
    (IF reversedVerticals THEN -1 ELSE 1)
        * (device[axismap[0]] - baseline) * StepDiv

\* C1: a readChannel(k), k in 1..4, returns the demand of the axes sampled by
\* the most recent readChannel(0), whatever the backend holds by then, and
\* does not acquire from the backend.
C1_FrameConsistency ==
    (polled /\ chan \in 1 .. 4) =>
        /\ ~acquired
        /\ ret = conditioned(axes, axismap, baseline, reversedVerticals,
                             useButtonForAux)[chan]

\* C1 witness: channel k was read after the sticks moved away from the
\* sampled frame, and the value returned is not the one the current axes give.
C1_Witness ==
    /\ polled /\ chan \in 1 .. 4
    /\ device /= axes
    /\ ret /= conditioned(device, axismap, baseline, reversedVerticals,
                          useButtonForAux)[chan]

\* C2 as stated: with reversedVerticals false, a frame from axes all equal to
\* the baseline has throttle and channels 1..4 equal to 0, whatever the other
\* two flags are.
C2_Original ==
    (running /\ polled /\ ~reversedVerticals /\ axes = Centered(baseline)) =>
        /\ throttleDemand = 0
        /\ \A k \in 1 .. 4 : demands[k] = 0

\* C2 amended: with reversedVerticals false, a frame from axes all equal to
\* the baseline has channels 1..3 equal to 0; channel 4 is 0 without
\* useButtonForAux and -1 with it; the throttle is 0 in direct mode, and in
\* integrator mode the frame leaves ThrottleState as it was.
C2_ZeroLaw ==
    /\ [](  (running /\ polled /\ ~reversedVerticals
                /\ axes = Centered(baseline)) =>
              /\ \A k \in 1 .. 3 : demands[k] = 0
              /\ demands[4] = (IF useButtonForAux THEN -One ELSE 0)
              /\ ~springyThrottle => throttleDemand = 0)
    /\ [][ (readChannel(0) /\ ~reversedVerticals /\ springyThrottle
                /\ device = Centered(baseline)) =>
              throttleDemand' = throttleDemand ]_vars

\* C2 witness: a centred frame was read on a controller with a non-zero
\* baseline, both remaining flags set.
C2_Witness ==
    /\ running /\ polled /\ chan = 0 /\ ~reversedVerticals
    /\ springyThrottle /\ useButtonForAux
    /\ baseline /= 0
    /\ axes = Centered(baseline)

\* C3 as stated: from any state, the frame with reversedVerticals true has
\* throttle and elevator negated and aileron, rudder, auxiliary identical,
\* compared with the frame with reversedVerticals false.
C3_Original ==
    running =>
        LET t == frame(device, axismap, baseline, TRUE, springyThrottle,
                       useButtonForAux, throttleDemand)
            f == frame(device, axismap, baseline, FALSE, springyThrottle,
                       useButtonForAux, throttleDemand)
        IN  /\ t.throttle = -f.throttle
            /\ t.demands[2] = -f.demands[2]
            /\ \A k \in {1, 3, 4} : t.demands[k] = f.demands[k]

\* C3 amended: the frame with reversedVerticals true has the elevator demand
\* and the freshly computed throttle demand negated and aileron, rudder,
\* auxiliary identical; the throttle returned is the negation in direct mode
\* only.
C3_InversionLaw ==
    running =>
        LET t == frame(device, axismap, baseline, TRUE, springyThrottle,
                       useButtonForAux, throttleDemand)
            f == frame(device, axismap, baseline, FALSE, springyThrottle,
                       useButtonForAux, throttleDemand)
        IN  /\ t.demands[0] = -f.demands[0]
            /\ t.demands[2] = -f.demands[2]
            /\ \A k \in {1, 3, 4} : t.demands[k] = f.demands[k]
            /\ ~springyThrottle => t.throttle = -f.throttle

\* C3 witness: a reversed controller has computed a frame in which throttle,
\* aileron and elevator are all deflected.
C3_Witness ==
    /\ running /\ polled /\ reversedVerticals /\ chan = 0
    /\ demands[0] /= 0 /\ demands[1] /= 0 /\ demands[2] /= 0
    /\ demands = frame(axes, axismap, baseline, TRUE, springyThrottle,
                       useButtonForAux, throttleDemand).demands

\* C4: with useButtonForAux, once a frame has been computed readChannel(4)
\* returns -1 whatever the backend axis mapped to the auxiliary channel holds.
C4_SuppressionLaw ==
    (useButtonForAux /\ polled /\ chan = 4) => ret = -One

\* C4 witness: channel 4 was read while the mapped axis would have normalized
\* to something else than -1.
C4_Witness ==
    /\ useButtonForAux /\ polled /\ chan = 4
    /\ (axes[axismap[4]] - baseline) * StepDiv /= -One

\* C5: in direct mode, after every readChannel(0) ThrottleState and the value
\* returned equal that frame's normalized, possibly inverted, throttle demand.
C5_DirectMode ==
    (running /\ ~springyThrottle /\ polled) =>
        /\ throttleDemand = sampledThrottle
        /\ chan = 0 => ret = sampledThrottle

\* C5 witness: a direct-mode frame returned a throttle that is neither the
\* start value nor zero.
C5_Witness ==
    /\ running /\ ~springyThrottle /\ polled /\ chan = 0
    /\ ret /= -One /\ ret /= 0

\* C6: in integrator mode a frame whose throttle demand lies strictly inside
\* (-0.15, 0.15) leaves ThrottleState unchanged.
C6_Deadband ==
    [][ (readChannel(0) /\ springyThrottle /\ Abs(offeredThrottle) < Band) =>
            throttleDemand' = throttleDemand ]_vars

\* C6 witness: an integrator-mode frame with a non-zero demand inside the
\* deadband was read with ThrottleState away from its start value.
C6_Witness ==
    /\ running /\ springyThrottle /\ polled /\ chan = 0
    /\ sampledThrottle /= 0 /\ Abs(sampledThrottle) < Band
    /\ throttleDemand /= -One

\* C7: with the throttle demand held at 1.0 from begin() on, ThrottleState
\* never decreases, never exceeds 1.0, and is eventually 1.0 for good.
C7_Saturation ==
    /\ [][running => throttleDemand' >= throttleDemand]_vars
    /\ [](running => throttleDemand <= One)
    /\ <>[](running /\ throttleDemand = One)

\* C7 witness: the accumulator has arrived at 1.0 on a frame whose demand is
\* 1.0.
C7_Witness ==
    /\ running /\ springyThrottle /\ polled /\ chan = 0
    /\ sampledThrottle = One
    /\ throttleDemand = One

\* C8: with no flag set, after readChannel(0) every readChannel(k) returns
\* (rawAxes[AxisMap[k]] - baseline) / 32767, that is (raw - baseline) units of
\* One / AxisScale.
C8_Remap ==
    (running /\ polled /\ chan \in Channels
        /\ ~reversedVerticals /\ ~springyThrottle /\ ~useButtonForAux) =>
        ret = (axes[axismap[chan]] - baseline) * (One \div AxisScale)

\* C8 witness: a channel was read whose mapped backend axis differs in value
\* from the backend axis of the same index.
C8_Witness ==
    /\ running /\ polled /\ chan \in Channels
    /\ ~reversedVerticals /\ ~springyThrottle /\ ~useButtonForAux
    /\ axismap[chan] /= chan
    /\ axes[axismap[chan]] /= axes[chan]
    /\ baseline /= 0

\* C9 as stated: the throttle returned by readChannel(0) lies in [-1, +1] in
\* every frame, in either throttle mode.
C9_Original ==
    (running /\ chan = 0) => (-One <= ret /\ ret <= One)

\* C9 amended: in integrator mode the throttle lies in [-1, +1] in every
\* frame, whatever the raw axes are; in direct mode it lies in [-1, +1]
\* exactly when the mapped raw axis is within 32767 of the baseline.
C9_ThrottleRange ==
    /\ (running /\ springyThrottle) =>
          /\ -One <= throttleDemand /\ throttleDemand <= One
          /\ chan = 0 => (-One <= ret /\ ret <= One)
    /\ (running /\ ~springyThrottle /\ chan = 0) =>
          ((-One <= ret /\ ret <= One)
              <=> Abs(axes[axismap[0]] - baseline) <= AxisScale)

\* C9 witness: an integrator-mode frame from axes outside the 16-bit range
\* returned a clamped throttle while leaving another channel above 1.
C9_Witness ==
    /\ running /\ springyThrottle /\ polled /\ chan = 0
    /\ Abs(axes[axismap[0]] - baseline) > AxisScale
    /\ ret = -One
    /\ sampledThrottle < -One
    /\ Abs(demands[1]) > One

\* C10: in integrator mode readChannel(0) advances ThrottleState by one step,
\* old + 0.01 * deadbanded demand, clamped; readChannel(k), k in 1..4, leaves
\* ThrottleState, the cached demands, the flags and the axis map alone.
C10_StepPerFrame ==
    [][ /\ (readChannel(0) /\ springyThrottle) =>
              LET d == IF Abs(offeredThrottle) <= Band
                       THEN 0 ELSE offeredThrottle
                  t == throttleDemand + d \div StepDiv
              IN  throttleDemand' =
                      (IF t > One THEN One ELSE IF t < -One THEN -One ELSE t)
        /\ (\E k \in 1 .. 4 : readChannel(k)) =>
              UNCHANGED <<throttleDemand, demands, reversedVerticals,
                          springyThrottle, useButtonForAux, axismap>>
      ]_vars

\* C10 witness: two frames on the same full-scale throttle left the
\* accumulator two steps above its start value, and a later channel was read.
C10_Witness ==
    /\ running /\ springyThrottle /\ polled /\ chan = 3
    /\ device = axes
    /\ sampledThrottle = One
    /\ throttleDemand = -One + 2 * AxisScale

====
